---------------------------- MODULE Spec2Model ----------------------------
(***************************************************************************)
(* Model of scripts/validate-skill.py: the 29-point skill validator.       *)
(*                                                                         *)
(* Text is a sequence of one-character strings, so the regular expressions *)
(* of the script are modelled character by character.  A regular           *)
(* expression is modelled by the set of its possible matches together with *)
(* the choice the backtracking matcher makes among them: a greedy          *)
(* quantifier takes the longest alternative that lets the rest match, a    *)
(* lazy one the shortest.                                                  *)
(***************************************************************************)
EXTENDS Integers, Sequences, FiniteSets, TLC

(***************************************************************************)
(* Program constants (validate-skill.py lines 10-14).                      *)
(***************************************************************************)
\* PASS_THRESHOLD one too low.
PASS_THRESHOLD_low == 24 - 1

PASS_THRESHOLD == 24
MAX_TOKENS == 5000
MAX_NAME_LEN == 64
MAX_DESC_LEN == 1024
MIN_DESC_LEN == 50

None == "None"

(***************************************************************************)
(* Characters.                                                             *)
(***************************************************************************)
NL == "\n"

\* What \s matches and what str.strip() removes (the characters a TLA+
\* string can spell; vertical tab and the Unicode spaces are left out).
SpaceChars == {" ", "\t", "\n", "\r", "\f"}

IsSpace(c) == c \in SpaceChars

QuoteChars == {"\"", "'"}

UpperCase == <<"A","B","C","D","E","F","G","H","I","J","K","L","M",
               "N","O","P","Q","R","S","T","U","V","W","X","Y","Z">>

LowerCase == <<"a","b","c","d","e","f","g","h","i","j","k","l","m",
               "n","o","p","q","r","s","t","u","v","w","x","y","z">>

Digits == {"0","1","2","3","4","5","6","7","8","9"}

\* str.lower() on one character.
LowerChar(c) ==
    IF \E k \in 1..26 : UpperCase[k] = c
    THEN LowerCase[CHOOSE k \in 1..26 : UpperCase[k] = c]
    ELSE c

\* str.lower()
Lower(s) == [k \in 1..Len(s) |-> LowerChar(s[k])] \o <<>>

\* The character class [a-z0-9-] of NAME_REGEX.
IsNameChar(c) == (\E k \in 1..26 : LowerCase[k] = c) \/ c \in Digits \/ c = "-"

SetMin(S) == CHOOSE x \in S : \A y \in S : x <= y

SetMax(S) == 0 - SetMin({0 - x : x \in S})

\* s[a..b], the empty text when a > b.
Slice(s, a, b) == IF a > b THEN <<>> ELSE SubSeq(s, a, b)

\* Every character of s[a..b] is whitespace.
AllSpace(s, a, b) == \A k \in a..b : IsSpace(s[k])

\* The literal lit occurs in s at position p.
At(s, p, lit) ==
    /\ p >= 1
    /\ p + Len(lit) - 1 <= Len(s)
    /\ \A k \in 1..Len(lit) : s[p + k - 1] = lit[k]

\* `lit in s` on Python strings.
Contains(s, lit) == \E p \in 1..(Len(s) - Len(lit) + 1) : At(s, p, lit)

\* The last position of the line that holds position p: `.` does not match
\* a newline, so a greedy `.+` starting at p runs to here.
EndOfLine(s, p) ==
    LET nls == {k \in p..Len(s) : s[k] = NL}
    IN  IF nls = {} THEN Len(s) ELSE SetMin(nls) - 1

\* str.strip(chars): drops the leading and trailing characters that are in
\* chars.
StripSet(s, chars) ==
    LET keep == {k \in 1..Len(s) : s[k] \notin chars}
    IN  IF keep = {} THEN <<>> ELSE SubSeq(s, SetMin(keep), SetMax(keep))

\* str.strip()
Strip(s) == StripSet(s, SpaceChars)

\* .strip().strip('"\'') of lines 40 and 49.
StripValue(s) == StripSet(Strip(s), QuoteChars)

\* ' '.join(s.strip().split()) of line 45: whitespace runs collapse to one
\* space, leading and trailing whitespace goes.
CollapseSpace(s) ==
    LET t    == Strip(s)
        keep == {k \in 1..Len(t) : ~IsSpace(t[k]) \/ ~IsSpace(t[k - 1])}
        nth(n) == CHOOSE k \in keep : Cardinality({x \in keep : x <= k}) = n
    IN  [n \in 1..Cardinality(keep) |->
            IF IsSpace(t[nth(n)]) THEN " " ELSE t[nth(n)]]

(***************************************************************************)
(* parse_frontmatter (lines 27-51).                                        *)
(***************************************************************************)
DASHES == <<"-", "-", "-">>

KEY_NAME == <<"n","a","m","e",":">>

KEY_DESC == <<"d","e","s","c","r","i","p","t","i","o","n",":">>

\* Ends of `\s*\n` started at position p: the positions of a newline reached
\* from p over whitespace only.
SpaceNewlineEnds(s, p) ==
    {i \in p..Len(s) : s[i] = NL /\ AllSpace(s, p, i - 1)}

\* Line 29, `\n---\s*\n` with the newline at j + 1: the ends of the match.
CloseEnds(s, j) ==
    IF j + 1 <= Len(s) /\ s[j + 1] = NL /\ At(s, j + 2, DASHES)
    THEN SpaceNewlineEnds(s, j + 5)
    ELSE {}

\* The opening delimiter searched for at every line start (re.search with
\* re.MULTILINE): the first line start from which the pattern matches.
OpenEnds_search(s) ==
    LET starts == {q \in 1..Len(s) :
                      /\ q = 1 \/ s[q - 1] = NL
                      /\ At(s, q, DASHES)
                      /\ \E i \in SpaceNewlineEnds(s, q + 3) :
                            \E j \in i..Len(s) : CloseEnds(s, j) # {}}
    IN  IF starts = {} THEN {} ELSE SpaceNewlineEnds(s, SetMin(starts) + 3)

\* Line 29, the opening `^---\s*\n` of re.match: anchored at position 1.
OpenEnds(s) == IF At(s, 1, DASHES) THEN SpaceNewlineEnds(s, 4) ELSE {}

\* Line 29: the match of r'^---\s*\n(.*?)\n---\s*\n' (DOTALL), as
\* [found, from, to, end]: the group is s[from..to], the match ends at end.
\* The first `\s*` is greedy (the last opening end that lets the rest
\* match), the group lazy (the first closing delimiter), the second `\s*`
\* greedy.
FrontmatterMatch(s) ==
    LET opens == {i \in OpenEnds(s) : \E j \in i..Len(s) : CloseEnds(s, j) # {}}
    IN  IF opens = {}
        THEN [found |-> FALSE, from |-> 0, to |-> 0, end |-> 0]
        ELSE LET i == SetMax(opens)
                 j == SetMin({k \in i..Len(s) : CloseEnds(s, k) # {}})
             IN  [found |-> TRUE, from |-> i + 1, to |-> j,
                  end |-> SetMax(CloseEnds(s, j))]

\* MULTILINE `^`: the positions where a line of t starts with key.
KeyStarts(t, key) ==
    {p \in 1..Len(t) : (p = 1 \/ t[p - 1] = NL) /\ At(t, p, key)}

\* Where `\s*(.+)$` can put the start of its group when `\s*` starts at q:
\* after whitespace only (newlines included), on a character `.` matches.
ValueStarts(t, q) ==
    {w \in q..Len(t) : AllSpace(t, q, w - 1) /\ t[w] # NL}

\* Lines 38 and 47: re.search(r'^key\s*(.+)$', t, re.MULTILINE), as
\* [found, value]: the first line start where the pattern matches; the
\* greedy `\s*` gives w the last possible start, the greedy `.+` runs to the
\* end of w's line, where `$` holds.
InlineMatch(t, key) ==
    LET ps == {p \in KeyStarts(t, key) : ValueStarts(t, p + Len(key)) # {}}
    IN  IF ps = {}
        THEN [found |-> FALSE, value |-> <<>>]
        ELSE LET w == SetMax(ValueStarts(t, SetMin(ps) + Len(key)))
             IN  [found |-> TRUE, value |-> SubSeq(t, w, EndOfLine(t, w))]

\* Line 43, the group ((?:\s+.+\n?)*) started at u: the position after the
\* last repetition.  One repetition is whitespace (at least one character),
\* then the rest of a line, then its newline if there is one.
RECURSIVE BlockEnd(_, _)
BlockEnd(t, u) ==
    LET ws == {w \in (u + 1)..Len(t) : AllSpace(t, u, w - 1) /\ t[w] # NL}
    IN  IF ws = {}
        THEN u
        ELSE LET e == EndOfLine(t, SetMax(ws))
             IN  BlockEnd(t, IF e + 1 <= Len(t) THEN e + 2 ELSE e + 1)

\* Where the block indicator of `^description:\s*[>|]` is, for the key at p:
\* the first character after the whitespace that follows the key.
IndicatorAt(t, p) ==
    LET q  == p + Len(KEY_DESC)
        as == {a \in q..Len(t) : AllSpace(t, q, a - 1) /\ ~IsSpace(t[a])}
    IN  IF as = {} THEN 0 ELSE SetMin(as)

\* Line 43: re.search(r'^description:\s*[>|]\s*\n((?:\s+.+\n?)*)', t,
\* re.MULTILINE), as [found, value]; value is the group.
BlockMatch(t) ==
    LET ok(p) == LET a == IndicatorAt(t, p)
                 IN  /\ a # 0
                     /\ t[a] \in {">", "|"}
                     /\ SpaceNewlineEnds(t, a + 1) # {}
        ps == {p \in KeyStarts(t, KEY_DESC) : ok(p)}
    IN  IF ps = {}
        THEN [found |-> FALSE, value |-> <<>>]
        ELSE LET a == IndicatorAt(t, SetMin(ps))
                 i == SetMax(SpaceNewlineEnds(t, a + 1))
             IN  [found |-> TRUE,
                  value |-> Slice(t, i + 1, BlockEnd(t, i + 1) - 1)]

\* Lines 36-49: the data dictionary, as the sequence of its (key, value)
\* items: a key that was not found has no item.
ExtractFields(fm_text) ==
    LET name_match   == InlineMatch(fm_text, KEY_NAME)
        desc_match   == BlockMatch(fm_text)
        inline_match == InlineMatch(fm_text, KEY_DESC)
    IN  (IF name_match.found
         THEN << <<"name", StripValue(name_match.value)>> >> ELSE <<>>)
        \o
        (IF desc_match.found
         THEN << <<"description", CollapseSpace(desc_match.value)>> >>
         ELSE IF inline_match.found
              THEN << <<"description", StripValue(inline_match.value)>> >>
              ELSE <<>>)

\* key in data
HasKey(data, key) == \E k \in 1..Len(data) : data[k][1] = key

\* data.get(key, default)
Get(data, key, default) ==
    IF HasKey(data, key)
    THEN data[CHOOSE k \in 1..Len(data) : data[k][1] = key][2]
    ELSE default

\* parse_frontmatter(content): (data, body, error) with error as a flag.
parse_frontmatter(content) ==
    LET match == FrontmatterMatch(content)
    IN  IF ~match.found
        THEN [data |-> None, body |-> content, error |-> TRUE]
        ELSE [data  |-> ExtractFields(Slice(content, match.from, match.to)),
              body  |-> Slice(content, match.end + 1, Len(content)),
              error |-> FALSE]


(***************************************************************************)
(* Check results: (name, passed, points, max_points, detail) with the      *)
(* name as the check's fixed label and the detail text left out.           *)
(***************************************************************************)
Check(name, passed, pts, max) ==
    [name |-> name, passed |-> passed, pts |-> IF passed THEN pts ELSE 0,
     max |-> max]

\* sum(c[2] for c in checks) and sum(c[3] for c in checks), lines 232-233.
RECURSIVE SumPts(_)
SumPts(checks) ==
    IF checks = <<>> THEN 0 ELSE Head(checks).pts + SumPts(Tail(checks))

RECURSIVE SumMax(_)
SumMax(checks) ==
    IF checks = <<>> THEN 0 ELSE Head(checks).max + SumMax(Tail(checks))

\* Python truthiness of a text or a dictionary: None, '' and {} are false
\* (lines 63, 77, 83, 221, 223).
Truthy(content) == content # None /\ content # <<>>

(***************************************************************************)
(* validate_critical (lines 54-92).                                        *)
(***************************************************************************)
\* os.path.isfile(skill_file), line 60: skill_file is what the directory holds
\* under the name SKILL.md.
SkillFileExists(skill_file) == skill_file.kind # "absent"

\* re.match(NAME_REGEX, name), line 78: `$` holds at the end of the text and
\* before a newline that ends it.
NameRegexMatches(name) ==
    \E k \in 1..Len(name) :
        /\ \A n \in 1..k : IsNameChar(name[n])
        /\ \/ k = Len(name)
           \/ k = Len(name) - 1 /\ name[Len(name)] = NL

\* data.get(key, '') if data else '', lines 77 and 83.
FieldOr(data, key) == IF Truthy(data) THEN Get(data, key, <<>>) ELSE <<>>

\* The early return without the placeholder rows.
NoContentChecks_dropped == <<>>

\* Lines 64-67: the rows of checks 2 to 5 when there is no content.
NoContentChecks ==
    << Check("Valid YAML frontmatter", FALSE, 0, 3),
       Check("name field valid", FALSE, 0, 3),
       Check("description field valid", FALSE, 0, 3),
       Check("Body non-empty", FALSE, 0, 3) >>

validate_critical(skill_file, content) ==
    LET exists == SkillFileExists(skill_file)
        first  == Check("SKILL.md exists", exists, 3, 3)
    IN  IF ~Truthy(content)
        THEN << first >> \o NoContentChecks
        ELSE LET parsed     == parse_frontmatter(content)
                 fm_valid   == parsed.data # None
                 name       == FieldOr(parsed.data, "name")
                 name_valid == /\ name # <<>>
                               /\ NameRegexMatches(name)
                               /\ Len(name) <= MAX_NAME_LEN
                 desc       == FieldOr(parsed.data, "description")
                 desc_valid == desc # <<>> /\ Len(desc) <= MAX_DESC_LEN
                 body_text  == IF parsed.data # None THEN parsed.body
                               ELSE content
                 body_valid == body_text # <<>> /\ Strip(body_text) # <<>>
             IN  << first,
                    Check("Valid YAML frontmatter", fm_valid, 3, 3),
                    Check("name field valid", name_valid, 3, 3),
                    Check("description field valid", desc_valid, 3, 3),
                    Check("Body non-empty", body_valid, 3, 3) >>

(***************************************************************************)
(* validate_structure (lines 95-143).                                      *)
(*                                                                         *)
(* A subdirectory is [isdir, md]: whether it exists and how many .md files *)
(* os.walk finds under it.  A JSON file is [kind, type, keys]: kind is     *)
(* "absent", "unreadable" (open raises PermissionError), "ioerror" (open   *)
(* or read raises another error: an OSError, a UnicodeDecodeError),        *)
(* "malformed" (json.load raises JSONDecodeError) or "parsed"; a parsed    *)
(* file has the type of its top-level value and, for a container, the      *)
(* members `in` looks through.                                             *)
(***************************************************************************)
\* Lines 101-105 and 111-115.
MdCount(d) == IF d.isdir THEN d.md ELSE 0

\* `key in data` raises TypeError when data is a number, a boolean or null.
InRaises(file) ==
    file.kind = "parsed" /\ file.type \in {"number", "boolean", "null"}

\* Whether the try block of lines 122-128 (134-140) lets an exception out:
\* only JSONDecodeError and PermissionError are caught.
JsonRaises(file, keys) ==
    \/ file.kind = "ioerror"
    \/ file.kind = "parsed" /\ keys # {} /\ InRaises(file)

\* json_valid / pkg_valid when nothing escapes: every key of keys is in data.
JsonValid(file, keys) ==
    file.kind = "parsed" /\ \A k \in keys : k \in file.keys

\* Whether validate_structure raises instead of returning.
StructureRaises(skill_path) ==
    \/ JsonRaises(skill_path.skilljson, {"name"})
    \/ JsonRaises(skill_path.pkgjson, {"name", "version"})

validate_structure(skill_path) ==
    << Check("references/ exists", MdCount(skill_path.refs) > 0, 2, 2),
       Check("commands/ exists", MdCount(skill_path.cmds) > 0, 2, 2),
       Check(".claude-skill.json valid",
             JsonValid(skill_path.skilljson, {"name"}), 2, 2),
       Check("package.json valid",
             JsonValid(skill_path.pkgjson, {"name", "version"}), 1, 1) >>

(***************************************************************************)
(* validate_quality (lines 146-174).                                       *)
(***************************************************************************)
W_AUTO == <<"a","u","t","o">>

W_INVOC == <<"i","n","v","o","c">>

\* NATURAL_KEYWORDS, lines 17-20.
NATURAL_KEYWORDS ==
    { <<"r","e","f","a","c","t","o","r">>,
      <<"c","l","e","a","n"," ","u","p">>,
      <<"i","m","p","r","o","v","e">>,
      <<"f","i","x">>,
      <<"s","i","m","p","l","i","f","y">>,
      <<"m","e","s","s","y">>,
      <<"c","o","m","p","l","e","x">>,
      <<"d","e","b","t">>,
      <<"q","u","a","l","i","t","y">> }

\* TECHNICAL_KEYWORDS, lines 21-24.
TECHNICAL_KEYWORDS ==
    { <<"c","o","d","e"," ","s","m","e","l","l">>,
      <<"c","o","m","p","l","e","x","i","t","y">>,
      <<"c","o","u","p","l","i","n","g">>,
      <<"c","o","h","e","s","i","o","n">>,
      <<"d","u","p","l","i","c","a","t","i","o","n">>,
      <<"d","r","y">>,
      <<"p","a","t","t","e","r","n">> }

\* lit at position p of s, letters compared without case (re.IGNORECASE).
AtNoCase(s, p, lit) ==
    /\ p >= 1
    /\ p + Len(lit) - 1 <= Len(s)
    /\ \A k \in 1..Len(lit) : LowerChar(s[p + k - 1]) = lit[k]

\* re.search(r'auto.?invoc', body, re.IGNORECASE), line 151: `.?` is one
\* character other than a newline, or nothing.
AutoInvocFound(body) ==
    \E p \in 1..Len(body) :
        /\ AtNoCase(body, p, W_AUTO)
        /\ \/ AtNoCase(body, p + 4, W_INVOC)
           \/ /\ p + 4 <= Len(body)
              /\ body[p + 4] # NL
              /\ AtNoCase(body, p + 5, W_INVOC)

\* Line 163.
TokenCount(body) == Len(body) \div 4

\* The comparison with <= for <.
TokenOk_inclusive(body) == TokenCount(body) <= MAX_TOKENS

\* The token check asking for a body as well.
TokenOk_nonempty(body) == body # <<>> /\ TokenCount(body) < MAX_TOKENS

\* Line 164.
TokenOk(body) == TokenCount(body) < MAX_TOKENS

validate_quality(body, description) ==
    LET auto_present  == body # <<>> /\ AutoInvocFound(body)
        desc_lower    == Lower(description)
        has_natural   == \E kw \in NATURAL_KEYWORDS : Contains(desc_lower, kw)
        has_technical == \E kw \in TECHNICAL_KEYWORDS : Contains(desc_lower, kw)
        dual          == has_natural /\ has_technical
        desc_ok       == Len(description) > MIN_DESC_LEN
    IN  << Check("Auto-invocation section present", auto_present, 2, 2),
           Check("Dual keywords in description", dual, 2, 2),
           Check("Token count", TokenOk(body), 2, 2),
           Check("Description length", desc_ok, 1, 1) >>

\* Line 198 (and 236): the threshold comparison.
Passes(score) == score >= PASS_THRESHOLD


\* The exit status with > for >=.
ExitStatus_strict(score) == IF score > PASS_THRESHOLD THEN 0 ELSE 1

\* Line 236: the exit status.
ExitStatus(score) == IF score >= PASS_THRESHOLD THEN 0 ELSE 1

\* Line 197: round(score / max_score * 100) if max_score else 0 (no score
\* out of max_score lies on a half, so rounding is to the nearest).
Percent(score, max_score) ==
    IF max_score = 0 THEN 0
    ELSE (2 * 100 * score + max_score) \div (2 * max_score)

(***************************************************************************)
(* Input texts of the model.                                               *)
(***************************************************************************)
\* The most .md files a subdirectory of the model holds.
MaxMd == 1

\* How far around a threshold the lengths of the quality inputs range.
LenSpan == 8

\* The most lines after the opening delimiter line of a text given to the
\* front-matter extractor.
MaxLines == 6

\* The lines after the first line of a text that starts with no delimiter.
BlockLines == 3

Fill(c, n) == [k \in 1..n |-> c]

\* '\n'.join(lines)
RECURSIVE JoinLines(_)
JoinLines(lines) ==
    IF lines = <<>> THEN <<>>
    ELSE IF Len(lines) = 1 THEN lines[1]
    ELSE lines[1] \o <<NL>> \o JoinLines(Tail(lines))

\* A manifest: a front-matter block of the lines given, then the body.
Doc(lines, body) ==
    DASHES \o <<NL>> \o JoinLines(lines) \o <<NL>> \o DASHES \o <<NL>> \o body

L_NAME_OK == <<"n","a","m","e",":"," ","m","y","-","s","k","i","l","l">>

L_NAME_BAD == <<"n","a","m","e",":"," ","M","y","_","S","k","i","l","l">>

P_NAME == <<"n","a","m","e",":"," ">>

P_DESC == <<"d","e","s","c","r","i","p","t","i","o","n",":"," ">>

D_GOOD == <<"R","e","f","a","c","t","o","r"," ","c","o","d","e"," ","t","o"," ","r","e","m","o","v","e"," ","d","u","p","l","i","c","a","t","i","o","n","."," ">>

D_NATURAL == <<"r","e","f","a","c","t","o","r"," ">>

D_LONG == <<"i","m","p","r","o","v","e"," ","c","o","h","e","s","i","o","n"," ">>

L_DESC_SHORT == <<"d","e","s","c","r","i","p","t","i","o","n",":"," ","f","i","x"," ","c","o","u","p","l","i","n","g">>

L_DESC_EMPTY == <<"d","e","s","c","r","i","p","t","i","o","n",":">>

L_DESC_BLOCK == <<"d","e","s","c","r","i","p","t","i","o","n",":"," ",">">>

L_BLOCK_1 == <<" "," ","S","i","m","p","l","i","f","y"," ","m","e","s","s","y"," ","c","o","d","e",":">>

L_BLOCK_2 == <<" "," ","f","i","n","d"," ","e","a","c","h"," ","c","o","d","e"," ","s","m","e","l","l"," ","a","n","d"," ","p","a","t","t","e","r","n",".">>

B_AUTO == <<"#"," ","A","u","t","o","-","I","n","v","o","c","a","t","i","o","n","\n","U","s","e"," ","i","t",".","\n">>

B_PLAIN == <<"H","e","l","l","o","\n">>

B_BLANK == <<" ","\n">>

\* A name of MAX_NAME_LEN + 1 characters.
L_NAME_LONG == P_NAME \o Fill("a", MAX_NAME_LEN + 1)

\* A description with both kinds of keyword, longer than MIN_DESC_LEN.
L_DESC_GOOD == P_DESC \o D_GOOD \o Fill("x", MIN_DESC_LEN)

\* A description with a natural keyword only, longer than MIN_DESC_LEN.
L_DESC_NATURAL == P_DESC \o D_NATURAL \o Fill("x", MIN_DESC_LEN)

\* A description with both kinds of keyword, longer than MAX_DESC_LEN.
L_DESC_LONG == P_DESC \o D_LONG \o Fill("x", MAX_DESC_LEN)

\* A body of n characters that mentions auto-invocation.
LongBody(n) == B_AUTO \o Fill("x", n - Len(B_AUTO))

\* The texts SKILL.md holds in the model.
ContentPool ==
    { Doc(<<L_NAME_OK, L_DESC_GOOD>>, B_AUTO),
      Doc(<<L_NAME_OK, L_DESC_GOOD>>, LongBody(4 * MAX_TOKENS)),
      Doc(<<L_NAME_BAD, L_DESC_LONG>>, B_AUTO),
      Doc(<<L_NAME_LONG, L_DESC_GOOD>>, B_AUTO),
      Doc(<<L_DESC_EMPTY, L_NAME_OK>>, B_AUTO),
      Doc(<<L_DESC_EMPTY>>, B_AUTO),
      Doc(<<L_NAME_OK>>, B_AUTO),
      Doc(<<L_NAME_OK, L_DESC_BLOCK, L_BLOCK_1, L_BLOCK_2>>, B_AUTO),
      Doc(<<L_NAME_OK, L_DESC_GOOD>>, <<>>),
      Doc(<<L_NAME_OK, L_DESC_GOOD>>, B_BLANK),
      Doc(<<L_NAME_OK, L_DESC_SHORT>>, B_PLAIN),
      Doc(<<L_NAME_OK, L_DESC_NATURAL>>, B_AUTO),
      Doc(<<>>, B_PLAIN),
      DASHES \o <<NL>> \o L_NAME_OK \o <<NL>> \o B_AUTO,
      B_AUTO,
      <<>> }

(***************************************************************************)
(* The target directory, as main finds it.  What the directory holds is    *)
(* an input: each part is drawn when main first looks at it, and stays as  *)
(* it was found.                                                           *)
(***************************************************************************)
\* SKILL.md: absent (os.path.isfile is False), unreadable (a file, and open
\* raises PermissionError), ioerror (a file, and open or read raises another
\* error: an OSError, a UnicodeDecodeError) or a file with its text.
SkillFiles ==
    { [kind |-> k, text |-> <<>>] : k \in {"absent", "unreadable", "ioerror"} }
    \cup { [kind |-> "file", text |-> t] : t \in ContentPool }

\* references/ and commands/.
SubDirs ==
    { [isdir |-> FALSE, md |-> 0] }
    \cup { [isdir |-> TRUE, md |-> n] : n \in 0..MaxMd }

\* .claude-skill.json and package.json.
JsonFiles ==
    { [kind |-> k, type |-> "none", keys |-> {}] :
          k \in {"absent", "unreadable", "ioerror", "malformed"} }
    \cup { [kind |-> "parsed", type |-> "object", keys |-> ks] :
          ks \in {{}, {"name"}, {"name", "version"}} }
    \cup { [kind |-> "parsed", type |-> "number", keys |-> {}] }

\* What validate_structure looks at.
Trees ==
    [seen : {TRUE}, refs : SubDirs, cmds : SubDirs,
     skilljson : JsonFiles, pkgjson : JsonFiles]

NotSeenFile == [kind |-> "notseen", text |-> <<>>]

NotSeenTree ==
    [seen |-> FALSE,
     refs |-> [isdir |-> FALSE, md |-> 0], cmds |-> [isdir |-> FALSE, md |-> 0],
     skilljson |-> [kind |-> "absent", type |-> "none", keys |-> {}],
     pkgjson |-> [kind |-> "absent", type |-> "none", keys |-> {}]]

(***************************************************************************)
(* main (lines 204-236), one action per step.                              *)
(***************************************************************************)
VARIABLES
    skill_file,   \* SKILL.md of the target directory, as main found it
    tree,         \* the rest of the target directory, as found
    pc,           \* where main is
    content, data, body, description,
    critical, structure, quality,
    all_checks, score, max_score,
    report,       \* what print_results wrote
    exit_code     \* the exit status, -1 while the process runs

vars == <<skill_file, tree, pc, content, data, body, description, critical,
          structure, quality, all_checks, score, max_score, report, exit_code>>

NoReport == [critical |-> <<>>, structure |-> <<>>, quality |-> <<>>,
             score |-> 0, max_score |-> 0, pct |-> 0, result |-> "none"]

Init ==
    /\ skill_file = NotSeenFile
    /\ tree = NotSeenTree
    /\ pc = "read"
    /\ content = None
    /\ data = None
    /\ body = <<>>
    /\ description = <<>>
    /\ critical = <<>>
    /\ structure = <<>>
    /\ quality = <<>>
    /\ all_checks = <<>>
    /\ score = 0
    /\ max_score = 0
    /\ report = NoReport
    /\ exit_code = -1

\* An exception nothing catches: the traceback, and exit status 1.
Abort ==
    /\ pc' = "crashed"
    /\ exit_code' = 1

\* Lines 208-216: the content main reads from SKILL.md, None when there is
\* no file or open raises PermissionError.
ReadContent(f) == IF f.kind = "file" THEN f.text ELSE None

ReadSkill ==
    /\ pc = "read"
    /\ \E f \in SkillFiles :
          /\ f.kind # "ioerror"
          /\ skill_file' = f
          /\ content' = ReadContent(f)
    /\ pc' = "parse"
    /\ UNCHANGED <<tree, data, body, description, critical, structure,
                   quality, all_checks, score, max_score, report, exit_code>>

\* Lines 211-215 when open or read raises what `except PermissionError`
\* does not catch.
ReadSkillRaises ==
    /\ pc = "read"
    /\ \E f \in SkillFiles : f.kind = "ioerror" /\ skill_file' = f
    /\ Abort
    /\ UNCHANGED <<tree, content, data, body, description, critical,
                   structure, quality, all_checks, score, max_score, report>>

\* Lines 218-224: the data, body and description main keeps of a content.
QualityInputs(text) ==
    IF Truthy(text)
    THEN LET parsed == parse_frontmatter(text)
         IN  [data |-> parsed.data,
              body |-> parsed.body,
              description |-> IF Truthy(parsed.data)
                              THEN Get(parsed.data, "description", <<>>)
                              ELSE <<>>]
    ELSE [data |-> None, body |-> <<>>, description |-> <<>>]

ParseContent ==
    /\ pc = "parse"
    /\ data' = QualityInputs(content).data
    /\ body' = QualityInputs(content).body
    /\ description' = QualityInputs(content).description
    /\ pc' = "critical"
    /\ UNCHANGED <<skill_file, tree, content, critical, structure, quality,
                   all_checks, score, max_score, report, exit_code>>

\* Line 227.
RunCritical ==
    /\ pc = "critical"
    /\ critical' = validate_critical(skill_file, content)
    /\ pc' = "structure"
    /\ UNCHANGED <<skill_file, tree, content, data, body, description,
                   structure, quality, all_checks, score, max_score, report,
                   exit_code>>

\* Line 228.
RunStructure ==
    /\ pc = "structure"
    /\ \E t \in Trees :
          /\ ~StructureRaises(t)
          /\ tree' = t
          /\ structure' = validate_structure(t)
    /\ pc' = "quality"
    /\ UNCHANGED <<skill_file, content, data, body, description, critical,
                   quality, all_checks, score, max_score, report, exit_code>>

\* Line 228 when validate_structure raises.
RunStructureRaises ==
    /\ pc = "structure"
    /\ \E t \in Trees : StructureRaises(t) /\ tree' = t
    /\ Abort
    /\ UNCHANGED <<skill_file, content, data, body, description, critical,
                   structure, quality, all_checks, score, max_score, report>>

\* Line 229.
RunQuality ==
    /\ pc = "quality"
    /\ quality' = validate_quality(body, description)
    /\ pc' = "sum"
    /\ UNCHANGED <<skill_file, tree, content, data, body, description,
                   critical, structure, all_checks, score, max_score, report,
                   exit_code>>

\* Lines 231-233.
SumScores ==
    /\ pc = "sum"
    /\ all_checks' = critical \o structure \o quality
    /\ score' = SumPts(critical \o structure \o quality)
    /\ max_score' = SumMax(critical \o structure \o quality)
    /\ pc' = "print"
    /\ UNCHANGED <<skill_file, tree, content, data, body, description,
                   critical, structure, quality, report, exit_code>>

\* print_results(all_checks, score, max_score), lines 177-201: what it prints.
print_results(checks, total, max_total) ==
    [critical  |-> Slice(checks, 1, IF Len(checks) < 5 THEN Len(checks) ELSE 5),
     structure |-> Slice(checks, 6, IF Len(checks) < 9 THEN Len(checks) ELSE 9),
     quality   |-> Slice(checks, 10, Len(checks)),
     score     |-> total,
     max_score |-> max_total,
     pct       |-> Percent(total, max_total),
     result    |-> IF Passes(total) THEN "PASS" ELSE "FAIL"]

\* Line 235.
PrintResults ==
    /\ pc = "print"
    /\ report' = print_results(all_checks, score, max_score)
    /\ pc' = "exit"
    /\ UNCHANGED <<skill_file, tree, content, data, body, description,
                   critical, structure, quality, all_checks, score, max_score,
                   exit_code>>

\* Line 236.
Exit ==
    /\ pc = "exit"
    /\ exit_code' = ExitStatus(score)
    /\ pc' = "done"
    /\ UNCHANGED <<skill_file, tree, content, data, body, description,
                   critical, structure, quality, all_checks, score, max_score,
                   report>>

\* Lines 208-231 as one function of the directory: all_checks of the run on
\* SKILL.md f and the rest of the directory t, when nothing raises.
AllChecksOf(f, t) ==
    validate_critical(f, ReadContent(f))
    \o validate_structure(t)
    \o validate_quality(QualityInputs(ReadContent(f)).body,
                        QualityInputs(ReadContent(f)).description)

Next ==
    \/ ReadSkill
    \/ ReadSkillRaises
    \/ ParseContent
    \/ RunCritical
    \/ RunStructure
    \/ RunStructureRaises
    \/ RunQuality
    \/ SumScores
    \/ PrintResults
    \/ Exit

Spec == Init /\ [][Next]_vars

(***************************************************************************)
(* The front-matter extractor on its own: parse_frontmatter applied to     *)
(* every text of up to MaxLines lines.                                     *)
(***************************************************************************)
LINE_DELIM_SP == <<"-", "-", "-", " ">>

LINE_TEXT == <<"a">>

\* The lines the texts are made of.
ParseLines == { DASHES, LINE_DELIM_SP, LINE_TEXT, <<>> }

\* The texts of exactly n lines, each line ended by a newline.
RECURSIVE TextsOfLines(_)
TextsOfLines(n) ==
    IF n = 0 THEN { <<>> }
    ELSE { l \o <<NL>> \o t : l \in ParseLines, t \in TextsOfLines(n - 1) }

\* The texts given to parse_frontmatter.  A text that has a block to extract
\* starts with a delimiter line: those are followed by up to MaxLines lines.
\* The other texts are a line that is no delimiter followed by BlockLines
\* lines, enough for a whole block.  The last line comes with or without its
\* newline.
ParseTexts ==
    LET tails == UNION { TextsOfLines(n) : n \in 0..MaxLines }
        ended == { d \o <<NL>> \o t : d \in {DASHES, LINE_DELIM_SP}, t \in tails }
                 \cup { l \o <<NL>> \o t :
                           l \in {LINE_TEXT, <<>>}, t \in TextsOfLines(BlockLines) }
    IN  ended \cup { Slice(t, 1, Len(t) - 1) : t \in ended }

InitParse ==
    /\ content \in ParseTexts
    /\ skill_file = [kind |-> "file", text |-> content]
    /\ tree = NotSeenTree
    /\ pc = "parse"
    /\ data = None
    /\ body = <<>>
    /\ description = <<>>
    /\ critical = <<>>
    /\ structure = <<>>
    /\ quality = <<>>
    /\ all_checks = <<>>
    /\ score = 0
    /\ max_score = 0
    /\ report = NoReport
    /\ exit_code = -1

\* main's call of parse_frontmatter (line 222) on each text.
SpecParse == InitParse /\ [][ParseContent]_vars

(***************************************************************************)
(* The quality checks on their own: validate_quality applied to bodies     *)
(* whose lengths lie around 0 and around 4 * MAX_TOKENS, and to            *)
(* descriptions whose lengths lie around MIN_DESC_LEN.                     *)
(***************************************************************************)
QualityBodyLens ==
    (0..LenSpan) \cup ((4 * MAX_TOKENS - LenSpan)..(4 * MAX_TOKENS + LenSpan))

QualityBodies == { Fill("x", n) \o <<>> : n \in QualityBodyLens }

QualityDescriptions ==
    { <<>>, D_GOOD \o Fill("x", MIN_DESC_LEN) }
    \cup { Fill("x", n) \o <<>> : n \in (MIN_DESC_LEN - 1)..(MIN_DESC_LEN + 1) }

InitQuality ==
    /\ body \in QualityBodies
    /\ description \in QualityDescriptions
    /\ skill_file = NotSeenFile
    /\ tree = NotSeenTree
    /\ pc = "quality"
    /\ content = None
    /\ data = None
    /\ critical = <<>>
    /\ structure = <<>>
    /\ quality = <<>>
    /\ all_checks = <<>>
    /\ score = 0
    /\ max_score = 0
    /\ report = NoReport
    /\ exit_code = -1

\* main's call of validate_quality (line 229) on each body and description.
SpecQuality == InitQuality /\ [][RunQuality]_vars

(***************************************************************************)
(* Properties.                                                             *)
(***************************************************************************)
\* The points awarded, check by check.
PtsOf(checks) == [k \in 1..Len(checks) |-> checks[k].pts]

\* The checks that fail.
Failing(checks) == {k \in 1..Len(checks) : ~checks[k].passed}

AbsentFile == [kind |-> "absent", text |-> <<>>]

AbsentJson == [kind |-> "absent", type |-> "none", keys |-> {}]

\* The target directory holds none of the five things main looks for.
EmptyDirectory ==
    /\ skill_file.kind = "absent"
    /\ tree.seen
    /\ ~tree.refs.isdir
    /\ ~tree.cmds.isdir
    /\ tree.skilljson.kind = "absent"
    /\ tree.pkgjson.kind = "absent"

\* C1: whatever the directory holds, the run ends with exactly 13 check
\* results, 5 critical then 4 structure then 4 quality, whose maximum points
\* are 3,3,3,3,3, 2,2,2,1, 2,2,2,1 and sum to 29.
C1_ThirteenChecksAlways ==
    pc \in {"done", "crashed"} =>
        /\ Len(all_checks) = 13
        /\ [k \in 1..13 |-> all_checks[k].max]
               = <<3, 3, 3, 3, 3, 2, 2, 2, 1, 2, 2, 2, 1>>
        /\ SubSeq(all_checks, 1, 5) = critical
        /\ SubSeq(all_checks, 6, 9) = structure
        /\ SubSeq(all_checks, 10, 13) = quality
        /\ max_score = 29

\* C2 as stated: an empty directory scores 0 out of 29, every one of the 13
\* checks failing with 0 points, and the exit status is 1.
C2_EmptyDirectoryScoresZero ==
    (pc = "done" /\ EmptyDirectory) =>
        /\ score = 0
        /\ max_score = 29
        /\ Failing(all_checks) = 1..13
        /\ \A k \in 1..13 : all_checks[k].pts = 0
        /\ exit_code = 1

\* C2 as amended: an empty directory scores 2 out of 29: the token-count
\* check (row 12) passes with 2 points, since the absent body counts 0
\* tokens, the other 12 checks fail with 0 points, and the exit status is 1.
C2_EmptyDirectoryScoresTwo ==
    (pc = "done" /\ EmptyDirectory) =>
        /\ Len(all_checks) = 13
        /\ score = 2
        /\ max_score = 29
        /\ Failing(all_checks) = (1..13) \ {12}
        /\ \A k \in 1..13 : all_checks[k].pts = IF k = 12 THEN 2 ELSE 0
        /\ report.result = "FAIL"
        /\ exit_code = 1

C2_EmptyDirectoryRun == pc = "done" /\ EmptyDirectory

\* C3: no error aborts a run: once the process has an exit status, all 13
\* checks were produced, the report was printed and the status is 0 or 1.
C3_NoErrorAbortsTheRun ==
    exit_code # -1 =>
        /\ pc = "done"
        /\ Len(all_checks) = 13
        /\ report.result \in {"PASS", "FAIL"}
        /\ exit_code \in {0, 1}

\* C4: a file that is there but cannot be read (open or read raises a
\* permission or another I/O error) scores as the same file absent: the run
\* ends with 13 checks, and awards the same 13 points and the same total as
\* the run on the directory without that file.
C4_UnreadableScoresAsAbsent ==
    LET failed == {"unreadable", "ioerror"}
        ran    == pc = "done" /\ Len(all_checks) = 13
    IN  /\ (pc \in {"done", "crashed"} /\ skill_file.kind \in failed) =>
              /\ ran
              /\ PtsOf(all_checks) = PtsOf(AllChecksOf(AbsentFile, tree))
              /\ score = SumPts(AllChecksOf(AbsentFile, tree))
        /\ (pc \in {"done", "crashed"} /\ tree.skilljson.kind \in failed) =>
              /\ ran
              /\ PtsOf(all_checks) = PtsOf(critical
                    \o validate_structure([tree EXCEPT !.skilljson = AbsentJson])
                    \o quality)
        /\ (pc \in {"done", "crashed"} /\ tree.pkgjson.kind \in failed) =>
              /\ ran
              /\ PtsOf(all_checks) = PtsOf(critical
                    \o validate_structure([tree EXCEPT !.pkgjson = AbsentJson])
                    \o quality)

\* C5: the exit status is 0 exactly when the points awarded over all the
\* checks sum to at least 24, and 1 otherwise; the PASS/FAIL the report
\* prints agrees with it (PASS exactly when the status is 0).
C5_ExitStatusFollowsScore ==
    exit_code # -1 =>
        /\ exit_code \in {0, 1}
        /\ exit_code = 0 <=> SumPts(all_checks) >= 24
        /\ report.result = "PASS" <=> exit_code = 0
        /\ pc = "done" => report.result \in {"PASS", "FAIL"}

C5_PassesOnTheThreshold ==
    /\ pc = "done"
    /\ SumPts(all_checks) = 24
    /\ exit_code = 0
    /\ report.result = "PASS"

\* C6: with SKILL.md absent, the five critical checks (exists, front
\* matter, name, description, body) all fail with 0 points, all five rows
\* are there, in all_checks and in the report, and their maximum is 15.
C6_AbsentManifestFailsCritical ==
    (skill_file.kind = "absent" /\ pc \notin {"read", "parse", "critical"}) =>
        /\ Len(critical) = 5
        /\ [k \in 1..5 |-> critical[k].name]
               = <<"SKILL.md exists", "Valid YAML frontmatter",
                   "name field valid", "description field valid",
                   "Body non-empty">>
        /\ \A k \in 1..5 : ~critical[k].passed /\ critical[k].pts = 0
        /\ SumMax(critical) = 15
        /\ pc \in {"print", "exit", "done"} => SubSeq(all_checks, 1, 5) = critical
        /\ pc \in {"exit", "done"} => report.critical = critical

C6_AbsentManifestRun == pc = "done" /\ skill_file.kind = "absent"

\* C7 as stated: whenever parse_frontmatter extracts a block from a text,
\* parsing the returned body again extracts none: it reports no front matter
\* and returns the body unchanged.
C7_ReparseExtractsNothing ==
    (pc = "critical" /\ data # None) =>
        /\ parse_frontmatter(body).data = None
        /\ parse_frontmatter(body).body = body

\* C7 as amended: whenever parse_frontmatter extracts a block from a text
\* and the returned body does not itself begin with the delimiter ---,
\* parsing the body again reports no front matter and returns the body
\* unchanged.
C7_ReparseNeedsLeadingDelimiter ==
    (pc = "critical" /\ data # None /\ ~At(body, 1, DASHES)) =>
        /\ parse_frontmatter(body).data = None
        /\ parse_frontmatter(body).error
        /\ parse_frontmatter(body).body = body

\* A body that begins with no delimiter and holds a whole block from a later
\* line on.
C7_BodyWithLaterBlock ==
    /\ pc = "critical"
    /\ data # None
    /\ ~At(body, 1, DASHES)
    /\ \E p \in 2..Len(body) :
          /\ body[p - 1] = NL
          /\ parse_frontmatter(Slice(body, p, Len(body))).data # None
    /\ parse_frontmatter(body).data = None

\* C8: the token-count check awards its 2 points exactly when the body's
\* length divided by 4 (integer division) is below 5000: 19999 characters
\* pass, 20000 characters fail with 0 points.
C8_TokenCountBoundary ==
    pc = "sum" =>
        /\ quality[3].name = "Token count"
        /\ quality[3].pts \in {0, 2}
        /\ quality[3].pts = 2 <=> Len(body) \div 4 < 5000
        /\ quality[3].passed <=> quality[3].pts = 2
        /\ Len(body) = 19999 => quality[3].pts = 2
        /\ Len(body) = 20000 => quality[3].pts = 0

C8_TwentyThousandFails ==
    /\ pc = "sum"
    /\ Len(body) = 20000
    /\ ~quality[3].passed
    /\ quality[3].pts = 0

\* What follows key on the first line of t that starts with key, up to the
\* end of that line.
RestOfKeyLine(t, key) ==
    LET p == SetMin(KeyStarts(t, key))
    IN  Slice(t, p + Len(key), EndOfLine(t, p))

\* C9: a description in inline form comes from the line of its key only: when
\* the first `description:` line of the front matter has nothing after the
\* colon (and so no block indicator), no description is taken from a later
\* line, and critical check 4 fails.
C9_InlineValueFromItsOwnLine ==
    (pc = "structure" /\ Truthy(content) /\ FrontmatterMatch(content).found) =>
        LET m == FrontmatterMatch(content)
            t == Slice(content, m.from, m.to)
        IN  (/\ KeyStarts(t, KEY_DESC) # {}
             /\ Strip(RestOfKeyLine(t, KEY_DESC)) = <<>>) =>
                /\ Get(data, "description", <<>>) = <<>>
                /\ description = <<>>
                /\ ~critical[4].passed
                /\ critical[4].pts = 0

\* C10: a run that exits with status 0 found SKILL.md readable with a
\* front-matter block (critical checks 1 and 2 pass) and has at most one
\* failing critical check.
C10_PassNeedsManifest ==
    (pc = "done" /\ exit_code = 0) =>
        /\ skill_file.kind = "file"
        /\ data # None
        /\ all_checks[1].passed
        /\ all_checks[2].passed
        /\ Cardinality(Failing(critical)) <= 1

C10_PassWithOneCriticalFailure ==
    /\ pc = "done"
    /\ exit_code = 0
    /\ Cardinality(Failing(critical)) = 1
    /\ all_checks[1].passed
    /\ all_checks[2].passed

=============================================================================
